---- MODULE Spec2Model ----
(***************************************************************************)
(* Model of smart_open/http.py: SeekableBufferedInputBase, the seekable    *)
(* streamed HTTP reader, with the buffered read() it shares with           *)
(* BufferedInputBase.  The remote resource is a byte sequence; the         *)
(* transport (requests.get) answers a GET, optionally ranged, with a       *)
(* status and a body that the reader pulls in chunks.                      *)
(***************************************************************************)
EXTENDS Integers, Sequences, FiniteSets, TLC

\* Bounds of the model.
MaxLen == 3          \* longest resource, in bytes
MaxSize == 2         \* largest size passed to read()
MaxBufferSize == 2   \* largest buffer_size (chunk size asked of iter_content)

\* http.py:11-14
START == 0
CURRENT == 1
END == 2

\* WHENCE_CHOICES admitting every whence.
WHENCE_CHOICES_any == 0..3

WHENCE_CHOICES == {START, CURRENT, END}

VARIABLES
    content,         \* the remote resource (fixed for the life of the reader)
    headers,         \* headers of the initial response
    buffer_size,     \* self.buffer_size
    response,        \* self.response: None or the live response
    _read_buffer,    \* self._read_buffer: None or [bytes |-> ...]
    _read_iter,      \* self._read_iter: None or the chunk generator
    _current_pos,    \* self._current_pos
    _seekable,       \* self._seekable
    content_length,  \* self.content_length
    last,            \* the last call: its arguments, result and the state it started from
    close_called,    \* history: close() has been called on the reader
    loop,            \* history: have all calls so far been read(n) with one n?
    delivered        \* history: bytes returned by read since the cursor was last set by seek

vars == <<content, headers, buffer_size, response, _read_buffer, _read_iter,
          _current_pos, _seekable, content_length, last, close_called, loop,
          delivered>>

\* Python's None, for the attributes that can hold it.
None == [none |-> TRUE]

Min(a, b) == IF a < b THEN a ELSE b
Max(a, b) == IF a > b THEN a ELSE b

\* s[from:to] of Python, on 0-based offsets.
Slice(s, from, to) == SubSeq(s, from + 1, Min(to, Len(s)))

\* The resources: byte i of a resource of length L has value i.
Resources == { [i \in 1..L |-> i] : L \in 0..MaxLen }

\* Every way of splitting len bytes into chunks of 1..bs bytes.
RECURSIVE Splits(_, _)
Splits(len, bs) ==
    IF len <= 0 THEN { <<>> }
    ELSE UNION { { <<c>> \o s : s \in Splits(len - c, bs) } : c \in 1..Min(len, bs) }

Sizes == -1..MaxSize
\* Seek offsets: enough to reach past both ends of the longest resource.
Offsets == -(MaxLen + 1)..(MaxLen + 1)
Whences == 0..3

\* Values of the Content-Length and Accept-Ranges headers; Absent: not sent.
Absent == "absent"
AcceptRangesValues == {"bytes", "Bytes", "none", Absent}

\* lower leaving the text as it is.
lower_none(s) == s

\* str.lower() on the header values above.
lower(s) == IF s = "Bytes" THEN "bytes" ELSE s

\* dict.get(key, default)
get(h, key, default) == IF h[key] = Absent THEN default ELSE h[key]

\* Decimal text of the integers -1..9, as a Content-Length header carries it.
Decimal == <<"-1", "0", "1", "2", "3", "4", "5", "6", "7", "8", "9">>
str(n) == Decimal[n + 2]

\* int(text), http.py:174
int(s) == CHOOSE n \in -1..9 : str(n) = s

\* _clamp without the lower bound.
_clamp_nofloor(value, minval, maxval) == Min(value, maxval)

\* _clamp without the upper bound.
_clamp_noceil(value, minval, maxval) == Max(value, minval)

\* http.py:24-25
_clamp(value, minval, maxval) == Max(Min(value, maxval), minval)

\* http.py:237-246 -- the answers requests.get can give to a GET of the
\* resource from start_pos on (None: no range header, the whole resource):
\* a failure status, or success with the body positioned at start_pos.
_partial_request(start_pos) ==
    LET start == IF start_pos = None THEN 0 ELSE start_pos.at
    IN  { [ok |-> FALSE, raw |-> start], [ok |-> TRUE, raw |-> start] }

\* response.iter_content(buffer_size): a generator over the rest of the raw
\* body, in chunks whose sizes the transport decides.
iter_content(resp, bs) ==
    { [chunks |-> s] : s \in Splits(Len(content) - resp.raw, bs) }

\* Fill with the chunk pulled replacing the buffer instead of extending it.
RECURSIVE Fill_replace(_, _, _, _)
Fill_replace(buf, raw, chunks, size) ==
    IF Len(buf) >= size
    THEN [stop |-> FALSE, buf |-> buf, raw |-> raw, chunks |-> chunks]
    ELSE IF raw >= Len(content) \/ chunks = <<>>
    THEN [stop |-> TRUE, buf |-> buf, raw |-> raw, chunks |-> chunks]
    ELSE Fill_replace(Slice(content, raw, raw + Head(chunks)),
                      raw + Head(chunks), Tail(chunks), size)

\* http.py:107-116 -- the while loop of read(): pull chunks (next) until the
\* buffer holds size bytes or the generator stops (StopIteration).
RECURSIVE Fill(_, _, _, _)
Fill(buf, raw, chunks, size) ==
    IF Len(buf) >= size
    THEN [stop |-> FALSE, buf |-> buf, raw |-> raw, chunks |-> chunks]
    ELSE IF raw >= Len(content) \/ chunks = <<>>
    THEN [stop |-> TRUE, buf |-> buf, raw |-> raw, chunks |-> chunks]
    ELSE Fill(buf \o Slice(content, raw, raw + Head(chunks)),
              raw + Head(chunks), Tail(chunks), size)

\* http.py:103-124 -- read(size) for size > 0, on a buffer buf and a generator
\* with chunks left over a body at offset raw: the bytes returned and the
\* buffer, body offset and generator left behind.
BoundedRead(buf, raw, chunks, size) ==
    LET f == Fill(buf, raw, chunks, size)
    IN  [retval |-> IF f.stop THEN f.buf ELSE SubSeq(f.buf, 1, size),
         buf |-> IF f.stop THEN <<>> ELSE SubSeq(f.buf, size + 1, Len(f.buf)),
         raw |-> f.raw, chunks |-> f.chunks]

\* The state a call starts from.
Pre == [pos |-> _current_pos, buf |-> _read_buffer, iter |-> _read_iter,
        response |-> response]

\* The record of a call: data is what read returned, ret what seek or tell
\* returned, err the exception raised, request the status of the GET the call
\* issued ("none": it issued no request).
Call(op, size, offset, whence, data, ret, err, request) ==
    [op |-> op, size |-> size, offset |-> offset, whence |-> whence,
     data |-> data, ret |-> ret, err |-> err, request |-> request, pre |-> Pre]

\* The history of the calls made on the current handle: opened by "init" or
\* by a "seek" whose request succeeded, at offset base (target: the seek's
\* target before clamping); uniform while every call since has been read(size)
\* with one size.
Opened(by, base, target) ==
    [opened |-> by, base |-> base, target |-> target,
     started |-> FALSE, uniform |-> TRUE, size |-> 0]
Mixed == [opened |-> "any", base |-> 0, target |-> 0,
          started |-> TRUE, uniform |-> FALSE, size |-> 0]

LoopAfterRead(size) ==
    IF ~loop.started THEN [loop EXCEPT !.started = TRUE, !.size = size]
    ELSE IF loop.uniform /\ loop.size = size THEN loop
    ELSE Mixed

\* http.py:146-188 -- the state after construction: the initial request
\* succeeded (otherwise raise_for_status raises and there is no reader).
Init ==
    /\ content \in Resources
    /\ buffer_size \in 1..MaxBufferSize
    /\ headers \in { [ContentLength |-> cl, AcceptRanges |-> ar] :
                        cl \in {Absent, "-1", str(Len(content))}, ar \in AcceptRangesValues }
    /\ response \in { r \in _partial_request(None) : r.ok }
    /\ _current_pos = 0
    /\ content_length = int(get(headers, "ContentLength", "-1"))
    /\ _seekable = (content_length >= 0
                     /\ lower(get(headers, "AcceptRanges", "none")) = "bytes")
    /\ _read_buffer = None
    /\ _read_iter = None
    /\ last = [op |-> "init", size |-> 0, offset |-> 0, whence |-> 0,
               data |-> <<>>, ret |-> 0, err |-> "none", request |-> "ok",
               pre |-> [pos |-> 0, buf |-> None, iter |-> None, response |-> None]]
    /\ close_called = FALSE
    /\ loop = Opened("init", 0, 0)
    /\ delivered = <<>>

\* http.py:91-124
read(size) ==
    /\ loop' = LoopAfterRead(size)
    /\ UNCHANGED <<content, headers, buffer_size, _seekable, content_length, close_called>>
    /\ IF response = None \/ size = 0
       THEN /\ last' = Call("read", size, 0, 0, <<>>, 0, "none", "none")
            /\ UNCHANGED <<response, _read_buffer, _read_iter, _current_pos, delivered>>
       ELSE IF size < 0
       THEN LET retval == Slice(content, response.raw, Len(content))
            IN  /\ response' = [response EXCEPT !.raw = Len(content)]
                /\ _current_pos' = _current_pos + Len(retval)
                /\ delivered' = delivered \o retval
                /\ last' = Call("read", size, 0, 0, retval, 0, "none", "none")
                /\ UNCHANGED <<_read_buffer, _read_iter>>
       ELSE \E it \in (IF _read_iter = None THEN iter_content(response, buffer_size)
                                            ELSE {_read_iter}) :
            LET buf0 == IF _read_iter = None THEN <<>> ELSE _read_buffer.bytes
                r == BoundedRead(buf0, response.raw, it.chunks, size)
            IN  /\ _read_iter' = [chunks |-> r.chunks]
                /\ response' = [response EXCEPT !.raw = r.raw]
                /\ _read_buffer' = [bytes |-> r.buf]
                /\ _current_pos' = _current_pos + Len(r.retval)
                /\ delivered' = delivered \o r.retval
                /\ last' = Call("read", size, 0, 0, r.retval, 0, "none", "none")

\* seekable() answering True whatever the headers said.
seekable_always == TRUE

\* http.py:230-231
seekable == _seekable

\* The test of line 213 always taken.
moved_always(new_pos) == TRUE

\* http.py:213 -- does the seek change the cursor?
moved(new_pos) == _current_pos # new_pos

\* reopen leaving the old buffer and generator in place.
reopen_keep_buffer(new_pos, resp) ==
    /\ _current_pos' = new_pos
    /\ response' = IF resp.ok THEN resp ELSE None
    /\ UNCHANGED <<_read_buffer, _read_iter, _seekable, content_length>>

\* reopen keeping the old response when the new request fails.
reopen_keep_response(new_pos, resp) ==
    /\ _current_pos' = new_pos
    /\ _read_buffer' = None
    /\ _read_iter' = None
    /\ response' = IF resp.ok THEN resp ELSE response
    /\ UNCHANGED <<_seekable, content_length>>

\* reopen taking content_length anew from the ranged response, whose
\* Content-Length is the length of the suffix requested.
reopen_relength(new_pos, resp) ==
    /\ _current_pos' = new_pos
    /\ _read_buffer' = None
    /\ _read_iter' = None
    /\ response' = IF resp.ok THEN resp ELSE None
    /\ content_length' = IF resp.ok THEN Len(content) - new_pos ELSE content_length
    /\ UNCHANGED _seekable

\* http.py:214-221 -- move the cursor, drop the buffer and the generator and
\* install the answer resp of the ranged request, or None when it failed.
reopen(new_pos, resp) ==
    /\ _current_pos' = new_pos
    /\ _read_buffer' = None
    /\ _read_iter' = None
    /\ response' = IF resp.ok THEN resp ELSE None
    /\ UNCHANGED <<_seekable, content_length>>

\* http.py:190-225
seek(offset, whence) ==
    /\ UNCHANGED <<content, headers, buffer_size, close_called>>
    /\ IF whence \notin WHENCE_CHOICES
       THEN /\ last' = Call("seek", 0, offset, whence, <<>>, 0, "ValueError", "none")
            /\ loop' = Mixed
            /\ UNCHANGED <<response, _read_buffer, _read_iter, _current_pos, delivered,
                           _seekable, content_length>>
       ELSE IF ~seekable
       THEN /\ last' = Call("seek", 0, offset, whence, <<>>, 0, "OSError", "none")
            /\ loop' = Mixed
            /\ UNCHANGED <<response, _read_buffer, _read_iter, _current_pos, delivered,
                           _seekable, content_length>>
       ELSE LET base == IF whence = START THEN 0
                        ELSE IF whence = CURRENT THEN _current_pos
                        ELSE content_length
                new_pos == _clamp(base + offset, 0, content_length)
            IN  IF moved(new_pos)
                THEN \E resp \in _partial_request([at |-> new_pos]) :
                     /\ reopen(new_pos, resp)
                     /\ delivered' = <<>>
                     /\ loop' = IF resp.ok THEN Opened("seek", new_pos, base + offset)
                                          ELSE Mixed
                     /\ last' = Call("seek", 0, offset, whence, <<>>, new_pos, "none",
                                     IF resp.ok THEN "ok" ELSE "failed")
                ELSE /\ last' = Call("seek", 0, offset, whence, <<>>, new_pos, "none", "none")
                     /\ loop' = Mixed
                     /\ UNCHANGED <<response, _read_buffer, _read_iter, _current_pos,
                                    delivered, _seekable, content_length>>

\* tell answering 0 once the handle is gone.
tell_needs_handle ==
    /\ last' = Call("tell", 0, 0, 0, <<>>, IF response = None THEN 0 ELSE _current_pos,
                    "none", "none")
    /\ UNCHANGED <<content, headers, buffer_size, response, _read_buffer, _read_iter,
                   _current_pos, _seekable, content_length, close_called, loop, delivered>>

\* http.py:227-228
tell ==
    /\ last' = Call("tell", 0, 0, 0, <<>>, _current_pos, "none", "none")
    /\ UNCHANGED <<content, headers, buffer_size, response, _read_buffer, _read_iter,
                   _current_pos, _seekable, content_length, close_called, loop, delivered>>

\* A call of seekable(), http.py:230-231; ret is 1 for True and 0 for False.
call_seekable ==
    /\ last' = Call("seekable", 0, 0, 0, <<>>, IF seekable THEN 1 ELSE 0, "none", "none")
    /\ UNCHANGED <<content, headers, buffer_size, response, _read_buffer, _read_iter,
                   _current_pos, _seekable, content_length, close_called, loop, delivered>>

\* http.py:72-75
close ==
    /\ response' = None
    /\ close_called' = TRUE
    /\ loop' = Mixed
    /\ last' = Call("close", 0, 0, 0, <<>>, 0, "none", "none")
    /\ UNCHANGED <<content, headers, buffer_size, _read_buffer, _read_iter,
                   _current_pos, _seekable, content_length, delivered>>

Next ==
    \/ \E size \in Sizes : read(size)
    \/ \E offset \in Offsets, whence \in Whences : seek(offset, whence)
    \/ tell
    \/ call_seekable
    \/ close

Spec == Init /\ [][Next]_vars

TypeOK ==
    /\ _current_pos \in 0..MaxLen
    /\ Len(delivered) <= Len(content)

----------------------------------------------------------------------------
\* The handle is live: self.response is not None.
Live(resp) == resp # None

\* The bytes of the resource from offset pos on.
Rest(pos) == Slice(content, pos, Len(content))

\* What read(size) must return at offset pos: the next size bytes, or all
\* that remain when size is negative or exceeds them.
NextBytes(pos, size) ==
    IF size < 0 THEN Rest(pos) ELSE Slice(content, pos, pos + size)

\* The last call was a read(size) on a live handle.
ReadOnLive == last.op = "read" /\ Live(last.pre.response)

\* A loop "read(n) until it returns empty" on a handle has just ended.
LoopEnded ==
    /\ loop.started /\ loop.uniform
    /\ ReadOnLive /\ last.data = <<>>

\* C1 (as stated): for every n >= 0 and every chunking, read(n) repeated on
\* a freshly opened reader until a call returns empty yields, concatenated,
\* the full resource.
C1_ReadLoopFromZero ==
    (LoopEnded /\ loop.size >= 0) => delivered = Rest(loop.base)

\* C1 (amended): the same for every n > 0; read(0) returns empty at once,
\* so a loop of read(0) ends with nothing delivered.
C1_ReadLoop ==
    /\ (LoopEnded /\ loop.size > 0) => delivered = Rest(loop.base)
    /\ (LoopEnded /\ loop.size = 0) => delivered = <<>>

C1_Witness ==
    /\ LoopEnded /\ loop.size = 2 /\ loop.opened = "init"
    /\ Len(content) = 3 /\ delivered = content /\ buffer_size = 2

\* What repeated read(size), size > 0, returns in all until a call returns
\* empty, from a buffer, a body offset and a generator.
RECURSIVE Drain(_, _, _, _)
Drain(buf, raw, chunks, size) ==
    LET r == BoundedRead(buf, raw, chunks, size)
    IN  IF r.retval = <<>> THEN <<>>
        ELSE r.retval \o Drain(r.buf, r.raw, r.chunks, size)

\* The generators read() can be working with in state st (a Pre record).
Generators(st) ==
    IF st.iter = None THEN iter_content(st.response, buffer_size) ELSE {st.iter}

Buffered(st) == IF st.iter = None THEN <<>> ELSE st.buf.bytes

\* C2: from any reachable state, read(-1) returns in one call exactly what
\* repeated read(n), n > 0, would have returned from the same state up to the
\* end of the resource.
C2_ReadAllEqualsBoundedReads ==
    (ReadOnLive /\ last.size < 0) =>
        \A n \in 1..MaxSize : \A it \in Generators(last.pre) :
            last.data = Drain(Buffered(last.pre), last.pre.response.raw, it.chunks, n)

\* C3: read(n), n > 0, on a live handle returns the next n bytes of the
\* resource after the cursor, or all that remain when fewer than n do (none
\* at the end), and advances the cursor by the number of bytes returned.
C3_BoundedReadReturnsNextBytes ==
    (ReadOnLive /\ last.size > 0) =>
        /\ last.data = NextBytes(last.pre.pos, last.size)
        /\ _current_pos = last.pre.pos + Len(last.data)

\* The last call was a seek that raised nothing.
SeekReturned == last.op = "seek" /\ last.err = "none"

\* The state the last call started from is the state now.
StateKept ==
    /\ response = last.pre.response
    /\ _read_iter = last.pre.iter
    /\ _read_buffer = last.pre.buf
    /\ _current_pos = last.pre.pos

\* C4 (as stated): with seekable false every seek, for every offset and
\* every whence value, fails with NotSeekable (OSError).
C4_EverySeekNotSeekable ==
    (~_seekable /\ last.op = "seek") => last.err = "OSError"

\* C4 (amended): with seekable false every seek with whence start, current or
\* end fails with NotSeekable (any other whence fails with InvalidArgument
\* first) and changes nothing; tell() never decreases and equals the number of
\* bytes read has returned.
C4_NotSeekable ==
    ~_seekable =>
        /\ last.op = "seek" =>
              /\ last.err = (IF last.whence \in {0, 1, 2} THEN "OSError" ELSE "ValueError")
              /\ last.request = "none" /\ StateKept
        /\ _current_pos >= last.pre.pos
        /\ _current_pos = Len(delivered)

C4_Witness ==
    /\ ~_seekable /\ last.op = "seek" /\ last.err = "OSError"
    /\ headers.AcceptRanges = "bytes" /\ headers.ContentLength = Absent
    /\ _current_pos = 2 /\ Len(content) > 2

\* C5: a seek with valid whence on a seekable reader raises nothing and
\* returns base + offset clamped into [0, content_length], base being 0, the
\* cursor or content_length; tell() right after equals the value returned.
C5_SeekReturnsClampedTarget ==
    (_seekable /\ last.op = "seek" /\ last.whence \in {0, 1, 2}) =>
        LET base == CASE last.whence = 0 -> 0
                      [] last.whence = 1 -> last.pre.pos
                      [] last.whence = 2 -> content_length
            target == base + last.offset
        IN  /\ last.err = "none"
            /\ last.ret = (IF target < 0 THEN 0
                            ELSE IF target > content_length THEN content_length
                            ELSE target)
            /\ _current_pos = last.ret

C5_Witness ==
    /\ SeekReturned /\ last.whence = 1 /\ last.pre.pos = 1 /\ last.offset = -2
    /\ last.ret = 0 /\ last.request = "ok"

\* The target of the last seek before clamping.
SeekTarget ==
    last.offset + (CASE last.whence = 0 -> 0
                     [] last.whence = 1 -> last.pre.pos
                     [] last.whence = 2 -> content_length)

\* Only read(n) with one n # 0 has been called on the handle a seek opened.
LoopAfterSeek ==
    /\ loop.opened = "seek" /\ loop.started /\ loop.uniform /\ loop.size # 0
    /\ Live(response)

C7_SeekBeyondEnd ==
    /\ [](SeekReturned /\ SeekTarget > content_length => last.ret = content_length)
    /\ [][(SeekReturned /\ SeekTarget > content_length /\ last'.op = "read")
              => last'.data = <<>>]_vars

C7_Witness ==
    /\ loop.opened = "seek" /\ loop.target > content_length /\ content_length > 1
    /\ loop.started /\ loop.uniform /\ loop.size > 0
    /\ ReadOnLive /\ last.data = <<>> /\ last.pre.pos = content_length

\* C8: a seek whose clamped target equals the cursor issues no request and
\* leaves the handle, the generator, the buffer and the cursor as they were.
C8_SeekToCursorIsNoOp ==
    (SeekReturned /\ last.ret = last.pre.pos) =>
        /\ last.request = "none"
        /\ StateKept

C8_Witness ==
    /\ SeekReturned /\ last.whence = 1 /\ last.offset = 0 /\ last.request = "none"
    /\ _read_buffer # None /\ Len(_read_buffer.bytes) > 0 /\ StateKept

\* C9 (as stated): when the ranged request of a seek fails, seek raises the
\* transport's error.
C9_FailedRequestRaises ==
    (last.op = "seek" /\ last.request = "failed") => last.err = "HTTPError"

\* C9 (amended): when the ranged request of a seek fails, seek raises
\* nothing: it returns the clamped target, moves the cursor there, drops the
\* buffer and the generator and leaves the reader without a handle.
C9_FailedRequestIsSilent ==
    (last.op = "seek" /\ last.request = "failed") =>
        /\ last.err = "none"
        /\ last.ret # last.pre.pos /\ _current_pos = last.ret
        /\ response = None /\ _read_buffer = None /\ _read_iter = None

C9_Witness ==
    /\ last.op = "seek" /\ last.request = "failed" /\ last.err = "none"
    /\ Live(last.pre.response) /\ last.pre.buf # None /\ response = None
    /\ last.ret = 1 /\ Len(content) > 2

\* C10: a read(n), n > 0, that returns fewer than n bytes has reached the end
\* of the resource: the handle was live and every byte from the cursor before
\* the call to the end has been returned.
C10_ShortReadMeansEnd ==
    (last.op = "read" /\ last.size > 0 /\ Len(last.data) < last.size) =>
        /\ Live(last.pre.response)
        /\ last.data = Rest(last.pre.pos)

\* C11: after close(), every later read(n), for any n, returns empty, raises
\* nothing and leaves the cursor and the buffer as they were.
C11_ReadAfterCloseIsEmpty ==
    (close_called /\ last.op = "read") =>
        /\ last.data = <<>> /\ last.err = "none"
        /\ StateKept

\* C12: a seek with a whence other than start, current, end fails with
\* InvalidArgument (ValueError); a seek that fails with InvalidArgument or
\* NotSeekable issues no request and leaves cursor, buffer, generator and
\* handle as they were.
C12_InvalidWhence ==
    /\ (last.op = "seek" /\ last.whence \notin {0, 1, 2}) => last.err = "ValueError"
    /\ (last.op = "seek" /\ last.err \in {"ValueError", "OSError"}) =>
          /\ last.request = "none"
          /\ StateKept

C12_Witness ==
    /\ last.op = "seek" /\ last.whence = 3 /\ last.err = "ValueError"
    /\ _seekable /\ Live(response)
    /\ _read_buffer # None /\ Len(_read_buffer.bytes) > 0 /\ _current_pos > 0

\* C13: with a live handle, the buffered bytes followed by the bytes not yet
\* pulled from the handle are the resource bytes from the cursor to the end.
C13_BufferThenPendingIsRest ==
    Live(response) =>
        (IF _read_iter = None THEN <<>> ELSE _read_buffer.bytes) \o Rest(response.raw)
            = Rest(_current_pos)

\* The reader lost its handle to a failed seek request (not to close()).
Broken == response = None /\ ~close_called

\* C14: when the ranged request of a seek fails the reader has no handle and
\* seek raised nothing; while there is no handle every read returns empty,
\* raises nothing and changes nothing; tell() still returns the cursor and
\* seekable() the capability flag.
C14_BrokenState ==
    /\ (last.op = "seek" /\ last.request = "failed") =>
          (response = None /\ last.err = "none")
    /\ (last.op = "read" /\ ~Live(last.pre.response)) =>
          (last.data = <<>> /\ last.err = "none" /\ StateKept)
    /\ (last.op = "tell" /\ ~Live(response)) =>
          (last.ret = _current_pos /\ last.err = "none")
    /\ (last.op = "seekable" /\ ~Live(response)) =>
          (last.ret = (IF _seekable THEN 1 ELSE 0) /\ last.err = "none")

C14_Witness ==
    /\ Broken /\ last.op = "tell" /\ last.ret = 1 /\ Len(content) > 1
    /\ loop = Mixed /\ _read_buffer = None

\* C15: from the Broken state, a seek to any target the transport would
\* answer with success (a retry of the target that failed included) opens a
\* new handle at that target.
C15_SeekRecoversFromBroken ==
    (/\ SeekReturned /\ last.request # "failed"
     /\ ~Live(last.pre.response) /\ ~close_called) =>
        /\ Live(response)
        /\ response.raw = last.ret

\* C16: the cursor becomes the seek target only when the seek's request
\* succeeds; when it fails, tell() keeps the value it had before the seek.
C16_CursorMovesOnlyOnSuccess ==
    /\ (last.op = "seek" /\ last.request = "ok") => _current_pos = last.ret
    /\ (last.op = "seek" /\ last.request = "failed") => _current_pos = last.pre.pos

\* The Content-Length header is present and holds a number >= 0.
LengthKnown == headers.ContentLength \in { str(n) : n \in 0..9 }

\* Every seek with a valid whence on a reader that is not seekable raises
\* NotSeekable.
SeekRefused ==
    (~_seekable /\ last.op = "seek" /\ last.whence \in {0, 1, 2}) => last.err = "OSError"

\* C17 (as stated): seekable is true exactly when Content-Length is present
\* and non-negative and Accept-Ranges is exactly "bytes"; otherwise every seek
\* raises NotSeekable.
C17_SeekableIffExactlyBytes ==
    /\ _seekable <=> (LengthKnown /\ headers.AcceptRanges = "bytes")
    /\ SeekRefused

\* C17 (amended): the same with Accept-Ranges compared in lower case, so that
\* "Bytes" enables seeking as "bytes" does.
C17_SeekableIffBytesAnyCase ==
    /\ _seekable <=> (LengthKnown /\ headers.AcceptRanges \in {"bytes", "Bytes"})
    /\ SeekRefused

C17_Witness ==
    /\ headers.AcceptRanges = "Bytes" /\ _seekable
    /\ SeekReturned /\ last.request = "ok" /\ last.ret = 1

\* C18: content_length and the flag seekable() returns, fixed at
\* construction, change under no call.
C18_LengthAndFlagFixed ==
    [][content_length' = content_length /\ _seekable' = _seekable]_vars

C18_Witness ==
    /\ SeekReturned /\ last.request = "ok" /\ last.ret = 2
    /\ content_length = 3 /\ response.raw = 2 /\ _seekable

\* C19: with content_length known the cursor stays within 0..content_length,
\* decreases only through seek, and is the resource offset of the next byte a
\* read returns.
C19_CursorIsNextByteOffset ==
    content_length >= 0 =>
        /\ 0 <= _current_pos /\ _current_pos <= content_length
        /\ last.op # "seek" => _current_pos >= last.pre.pos
        /\ (ReadOnLive /\ last.data # <<>>) => last.data[1] = content[last.pre.pos + 1]

\* C20: once close() has been called no later call issues a request or
\* brings back a live handle, and reads stay empty.
C20_CloseIsTerminal ==
    close_called =>
        /\ response = None
        /\ last.request = "none"
        /\ last.op = "read" => last.data = <<>>
====
